---- MODULE Spec2Model ----
(***************************************************************************)
(* A model of the solaredge-bsuf decoder: the stream readers of            *)
(* datareader.py (DataReader, FileReader, StreamRange) and the container   *)
(* decoder of dmpbsuf.py (BsufFile, BsufEntry, the entry variants and      *)
(* their dump and save operations).                                        *)
(*                                                                         *)
(* Bytes are integers 0..255, byte strings are sequences of them.  An      *)
(* optional argument (Python's None default) is a sequence of length at    *)
(* most one: <<>> is None and <<n>> is the integer n.  A call's outcome    *)
(* carries err, the name of the Python exception it raised ("" when it     *)
(* returned).                                                              *)
(***************************************************************************)
EXTENDS Integers, Sequences, FiniteSets, TLC

VARIABLES
    fileId,     \* which byte string the underlying file object holds
    fpos,       \* position of the underlying file object (shared by every view)
    dreaders,   \* the DataReader objects: [data, pos, eof]
    freaders,   \* the FileReader objects: [chain, eof]
    last,       \* the last reader call and its outcome
    phase,      \* BsufFile.__init__: "init", "entries", "ready" or "failed"
    topEof,     \* _eof of the FileReader main() makes of the file
    version,    \* BsufFile.version
    filesize,   \* the declared size read by BsufFile.__init__
    warned,     \* the size warning was printed
    entries,    \* BsufFile.entries: [size, type, ofs, entfh, checksum]
    filechecksum, \* BsufFile.filechecksum
    err,        \* the exception that ended the last operation ("" for none)
    passes,     \* how many iterations of enumentries() were started
    mode,       \* the running iteration: "dump", "save", "enum", or "" for none
    pending,    \* an object was yielded and the loop body has not run yet
    objs,       \* the objects yielded so far by the running iteration
    first,      \* the objects the first iteration yielded
    cur,        \* the views of the object yielded last: its fwfh FileReader
    printed,    \* what the last dump of a firmware entry printed
    savedir     \* the files of the target directory: [name, bytes]

rvars == <<fileId, fpos, dreaders, freaders, last>>
bvars == <<phase, topEof, version, filesize, warned, entries, filechecksum, err,
           passes, mode, pending, objs, first, cur, printed, savedir>>
vars == <<rvars, bvars>>

-----------------------------------------------------------------------------
(* Bounds of the reader model *)

\* length of the byte string under the readers
DataLen == 4
\* how many readers (the first and its subreaders) exist at most
MaxReaders == 2
\* how far past the end of the data a seek may go
MaxPast == 1

-----------------------------------------------------------------------------
(* Values *)

None == <<>>
Some(x) == <<x>>
IsNone(o) == o = <<>>
Val(o) == o[1]

Min(a, b) == IF a < b THEN a ELSE b

\* the value v bound to the parameter of F: a local variable of the code,
\* computed once
With(v, F(_)) == CHOOSE r \in {F(x) : x \in {v}} : TRUE
Front(s) == SubSeq(s, 1, Len(s) - 1)
Last(s) == s[Len(s)]

SEEK_SET == 0
SEEK_CUR == 1
SEEK_END == 2

\* Python's slice data[a:b] for 0 <= a
Slice(data, a, b) == SubSeq(data, a + 1, Min(b, Len(data)))

\* bytes(range(n)), the data the repository's tests read: byte i holds i
RangeBytes(n) == [i \in 1..n |-> i - 1]

-----------------------------------------------------------------------------
(* The underlying file object (open(fn, "rb")) *)

\* fh.read(n): up to n bytes, everything for None or -1, ValueError below -1
RawRead(data, pos, n) ==
    LET avail == IF Len(data) > pos THEN Len(data) - pos ELSE 0
    IN  IF ~IsNone(n) /\ Val(n) < -1
        THEN [err |-> "ValueError", data |-> <<>>, pos |-> pos]
        ELSE LET cnt == IF IsNone(n) \/ Val(n) = -1 THEN avail ELSE Min(Val(n), avail)
             IN  [err |-> "", data |-> SubSeq(data, pos + 1, pos + cnt), pos |-> pos + cnt]

\* a seek that takes every offset as absolute
RawSeekAbsolute(data, pos, ofs, whence) ==
    IF ofs < 0
    THEN [err |-> "OSError", pos |-> pos, ret |-> 0]
    ELSE [err |-> "", pos |-> ofs, ret |-> ofs]

\* fh.seek(ofs, whence): OSError for a negative target, any other target is taken
RawSeek(data, pos, ofs, whence) ==
    LET target == IF whence = SEEK_SET THEN ofs
                  ELSE IF whence = SEEK_CUR THEN pos + ofs
                  ELSE Len(data) + ofs
    IN  IF target < 0
        THEN [err |-> "OSError", pos |-> pos, ret |-> 0]
        ELSE [err |-> "", pos |-> target, ret |-> target]

-----------------------------------------------------------------------------
(* StreamRange.  A FileReader's fh is the file object or a StreamRange over *)
(* one; chain lists the StreamRanges from the outermost (over the file      *)
(* object) to the innermost, each [start, end] with end optional.           *)

\* a window one byte longer than asked for
StreamRangeOneMore(start, size) ==
    [start |-> start, end |-> IF IsNone(size) THEN None ELSE Some(start + Val(size) + 1)]

StreamRange(start, size) ==
    [start |-> start, end |-> IF IsNone(size) THEN None ELSE Some(start + Val(size))]

RECURSIVE SRTell(_, _)
SRTell(chain, pos) ==
    IF chain = <<>> THEN pos
    ELSE SRTell(Front(chain), pos) - Last(chain).start

RECURSIVE SRSeek(_, _, _, _, _)
SRSeek(data, chain, pos, ofs, whence) ==
    IF chain = <<>> THEN RawSeek(data, pos, ofs, whence)
    ELSE LET sr == Last(chain)
             fh == Front(chain)
             r  == IF whence = SEEK_SET
                   THEN SRSeek(data, fh, pos, sr.start + ofs, SEEK_SET)
                   ELSE IF whence = SEEK_CUR
                   THEN SRSeek(data, fh, pos, ofs, whence)
                   ELSE IF IsNone(sr.end)
                   THEN SRSeek(data, fh, pos, ofs, whence)
                   ELSE SRSeek(data, fh, pos, Val(sr.end) + ofs, SEEK_SET)
         IN  [r EXCEPT !.ret = r.ret - sr.start]

RECURSIVE SRRead(_, _, _, _)
SRRead(data, chain, pos, n) ==
    IF chain = <<>> THEN RawRead(data, pos, n)
    ELSE LET sr == Last(chain)
             fh == Front(chain)
         IN  IF IsNone(sr.end) THEN SRRead(data, fh, pos, n)
             ELSE LET remaining == Val(sr.end) - sr.start - SRTell(chain, pos)
                      m == IF IsNone(n) \/ Val(n) > remaining THEN remaining ELSE Val(n)
                  IN  SRRead(data, fh, pos, Some(m))

-----------------------------------------------------------------------------
(* FileReader: rd = [chain, eof]; the outcome carries the reader's new _eof *)
(* and the file object's new position.  none: the call returned None.       *)

FileReader(chain) == [chain |-> chain, eof |-> FALSE]

FileReaderSeek(data, rd, pos, ofs, whence) ==
    With(SRSeek(data, rd.chain, pos, ofs, whence),
         LAMBDA r : [err |-> r.err, pos |-> r.pos, ret |-> r.ret, eof |-> FALSE])

FileReaderSubreader(rd, pos, n) ==
    FileReader(Append(rd.chain, StreamRange(SRTell(rd.chain, pos), n)))

FileReaderRead(data, rd, pos, n, throw) ==
    IF rd.eof
    THEN [err |-> IF throw THEN "EOFError" ELSE "", none |-> ~throw,
          data |-> <<>>, pos |-> pos, eof |-> TRUE]
    ELSE With(SRRead(data, rd.chain, pos, n), LAMBDA r :
             IF r.err # ""
             THEN [err |-> r.err, none |-> FALSE, data |-> <<>>, pos |-> r.pos, eof |-> FALSE]
             ELSE IF (IsNone(n) \/ Val(n) > 0) /\ r.data = <<>>
             THEN [err |-> IF throw THEN "EOFError" ELSE "", none |-> FALSE,
                   data |-> <<>>, pos |-> r.pos, eof |-> TRUE]
             ELSE IF ~IsNone(n) /\ Val(n) # 0 /\ Len(r.data) < Val(n)
             THEN With(SRSeek(data, rd.chain, r.pos,
                              SRTell(rd.chain, r.pos) - Len(r.data), SEEK_SET), LAMBDA s :
                      IF s.err # ""
                      THEN [err |-> s.err, none |-> FALSE, data |-> <<>>,
                            pos |-> s.pos, eof |-> FALSE]
                      ELSE [err |-> IF throw THEN "EOFError" ELSE "", none |-> FALSE,
                            data |-> IF throw THEN <<>> ELSE r.data,
                            pos |-> s.pos, eof |-> TRUE])
             ELSE [err |-> "", none |-> FALSE, data |-> r.data, pos |-> r.pos, eof |-> FALSE])

\* struct.unpack(fmt, self.read(width)) of the fixed-width readers: TypeError
\* for None, struct.error for a buffer of another length
Unpacked(r, width) ==
    IF r.err # "" THEN r
    ELSE IF r.none THEN [r EXCEPT !.err = "TypeError"]
    ELSE IF Len(r.data) # width THEN [r EXCEPT !.err = "struct.error", !.data = <<>>]
    ELSE r

FileReaderReadbyte(data, rd, pos) ==
    Unpacked(FileReaderRead(data, rd, pos, Some(1), FALSE), 1)

-----------------------------------------------------------------------------
(* DataReader: dr = [data, pos, eof] *)

DataReader(data) == [data |-> data, pos |-> 0, eof |-> FALSE]

DataReaderTell(dr) == dr.pos

DataReaderEof(dr) == dr.pos = Len(dr.data)

DataReaderSeek(dr, ofs, whence) ==
    LET target == IF whence = SEEK_SET THEN ofs
                  ELSE IF whence = SEEK_CUR THEN ofs + dr.pos
                  ELSE ofs + Len(dr.data)
    IN  IF target < 0
        THEN [err |-> "ValueError", ret |-> 0, dr |-> [dr EXCEPT !.eof = FALSE]]
        ELSE [err |-> "", ret |-> target, dr |-> [dr EXCEPT !.eof = FALSE, !.pos = target]]

DataReaderReadbyte(dr) ==
    IF dr.eof THEN [err |-> "EOFError", data |-> <<>>, dr |-> dr]
    ELSE IF dr.pos >= Len(dr.data)
    THEN [err |-> "EOFError", data |-> <<>>, dr |-> [dr EXCEPT !.eof = TRUE]]
    ELSE [err |-> "", data |-> <<dr.data[dr.pos + 1]>>, dr |-> [dr EXCEPT !.pos = dr.pos + 1]]

DataReaderSubreader(dr, n) ==
    IF IsNone(n) THEN DataReader(Slice(dr.data, dr.pos, Len(dr.data)))
    ELSE DataReader(Slice(dr.data, dr.pos, dr.pos + Val(n)))

DataReaderRead(dr, n) ==
    IF dr.eof THEN [err |-> "EOFError", data |-> <<>>, dr |-> dr]
    ELSE LET m == IF IsNone(n) THEN Len(dr.data) - dr.pos ELSE Val(n)
         IN  IF dr.pos + m > Len(dr.data)
             THEN [err |-> "EOFError", data |-> <<>>, dr |-> [dr EXCEPT !.eof = TRUE]]
             ELSE [err |-> "", data |-> SubSeq(dr.data, dr.pos + 1, dr.pos + m),
                   dr |-> [dr EXCEPT !.pos = dr.pos + m]]


-----------------------------------------------------------------------------
(* The fixed-width readers of BaseReader.  A cursor threads the file        *)
(* object's position and the reader's _eof through a run of reads and       *)
(* collects the values read; after an exception the later reads do nothing. *)

RECURSIVE FromLe(_)
FromLe(bytes) == IF bytes = <<>> THEN 0 ELSE bytes[1] + 256 * FromLe(Tail(bytes))

\* the 16-bit value taken as unsigned
Unsigned16(u) == u

Signed16(u) == IF u >= 32768 THEN u - 65536 ELSE u

Cursor(pos, eof) == [pos |-> pos, eof |-> eof, err |-> "", vals |-> <<>>]

\* struct.unpack("<..", self.read(width)) for one little-endian field
ReadLe(data, chain, c0, width) ==
    With(c0, LAMBDA c :
        IF c.err # "" THEN c
        ELSE With(Unpacked(FileReaderRead(data, [chain |-> chain, eof |-> c.eof],
                                          c.pos, Some(width), FALSE), width), LAMBDA r :
                 [pos |-> r.pos, eof |-> r.eof, err |-> r.err,
                  vals |-> IF r.err = "" THEN Append(c.vals, FromLe(r.data)) ELSE c.vals]))

read16le(data, chain, c) == ReadLe(data, chain, c, 2)

read32le(data, chain, c) == ReadLe(data, chain, c, 4)

reads16le(data, chain, c0) ==
    With(c0, LAMBDA c :
        With(ReadLe(data, chain, c, 2), LAMBDA r :
            IF c.err # "" \/ r.err # "" THEN r
            ELSE [r EXCEPT !.vals = Append(c.vals, Signed16(Last(r.vals)))]))

\* read64le; the 64-bit value is kept as its low and high 32-bit words
read64le(data, chain, c0) ==
    With(c0, LAMBDA c :
        IF c.err # "" THEN c
        ELSE With(Unpacked(FileReaderRead(data, [chain |-> chain, eof |-> c.eof],
                                          c.pos, Some(8), FALSE), 8), LAMBDA r :
                 [pos |-> r.pos, eof |-> r.eof, err |-> r.err,
                  vals |-> IF r.err = ""
                           THEN c.vals \o <<FromLe(SubSeq(r.data, 1, 4)),
                                            FromLe(SubSeq(r.data, 5, 8))>>
                           ELSE c.vals]))

\* fh.read(n) kept as bytes: the bytes read are appended as one value
ReadBytes(data, chain, c0, n) ==
    With(c0, LAMBDA c :
        IF c.err # "" THEN c
        ELSE With(FileReaderRead(data, [chain |-> chain, eof |-> c.eof], c.pos, n, FALSE),
                  LAMBDA r :
                 [pos |-> r.pos, eof |-> r.eof, err |-> r.err,
                  vals |-> IF r.err = "" THEN Append(c.vals, r.data) ELSE c.vals]))

-----------------------------------------------------------------------------
(* dmpbsuf.py: the container *)

\* 0x663919145fab6655 as its low and high 32-bit words
MagicLo == 1605068373
MagicHi == 1715018004
HeaderSize == 16
SizeSlack == 18

NoEntry == [size |-> 0, type |-> 0, ofs |-> 0, entfh |-> FileReader(<<>>), checksum |-> 0]

\* BsufEntry.__init__(fh) on the FileReader of the file, at pos with _eof eof
BsufEntry(data, pos, eof) ==
    With(read16le(data, <<>>, read32le(data, <<>>, Cursor(pos, eof))), LAMBDA c2 :
        IF c2.err # ""
        THEN [err |-> c2.err, pos |-> c2.pos, eof |-> c2.eof, entry |-> NoEntry]
        ELSE With(FileReaderSeek(data, [chain |-> <<>>, eof |-> c2.eof],
                                 c2.pos, c2.vals[1], SEEK_CUR), LAMBDA sk :
             With(read16le(data, <<>>, [c2 EXCEPT !.pos = sk.pos, !.eof = sk.eof,
                                                  !.err = sk.err]), LAMBDA c3 :
                 [err |-> c3.err, pos |-> c3.pos, eof |-> c3.eof,
                  entry |-> IF c3.err # "" THEN NoEntry
                            ELSE [size |-> c2.vals[1],
                                  type |-> c2.vals[2],
                                  ofs |-> SRTell(<<>>, c2.pos),
                                  entfh |-> FileReaderSubreader(FileReader(<<>>), c2.pos,
                                                                Some(c2.vals[1])),
                                  checksum |-> c3.vals[3]]])))

\* a constructor that reads the magic and does not compare it
BsufHeaderUnchecked(data, pos, eof) ==
    With(read32le(data, <<>>, read32le(data, <<>>, read64le(data, <<>>, Cursor(pos, eof)))),
         LAMBDA c3 :
             IF c3.err # ""
             THEN [err |-> c3.err, pos |-> c3.pos, eof |-> c3.eof, version |-> 0,
                   filesize |-> 0, warned |-> FALSE]
             ELSE [err |-> "", pos |-> c3.pos, eof |-> c3.eof, version |-> c3.vals[3],
                   filesize |-> c3.vals[4],
                   warned |-> c3.vals[4] + SizeSlack # Len(data)])

\* BsufFile.__init__ up to the entry loop: magic, version, declared size
BsufHeader(data, pos, eof) ==
    With(read64le(data, <<>>, Cursor(pos, eof)), LAMBDA c1 :
        IF c1.err # ""
        THEN [err |-> c1.err, pos |-> c1.pos, eof |-> c1.eof, version |-> 0,
              filesize |-> 0, warned |-> FALSE]
        ELSE IF c1.vals # <<MagicLo, MagicHi>>
        THEN [err |-> "Exception: invalid header magic", pos |-> c1.pos, eof |-> c1.eof,
              version |-> 0, filesize |-> 0, warned |-> FALSE]
        ELSE With(read32le(data, <<>>, read32le(data, <<>>, c1)), LAMBDA c3 :
                 IF c3.err # ""
                 THEN [err |-> c3.err, pos |-> c3.pos, eof |-> c3.eof, version |-> 0,
                       filesize |-> 0, warned |-> FALSE]
                 ELSE [err |-> "", pos |-> c3.pos, eof |-> c3.eof, version |-> c3.vals[3],
                       filesize |-> c3.vals[4],
                       warned |-> c3.vals[4] + SizeSlack # Len(data)]))

\* a loop that also runs with the position at the declared end
MoreEntriesInclusive(pos, declared) == SRTell(<<>>, pos) <= declared + HeaderSize

\* the loop condition of BsufFile.__init__
MoreEntries(pos, declared) == SRTell(<<>>, pos) < declared + HeaderSize

-----------------------------------------------------------------------------
(* dmpbsuf.py: the entry variants enumentries() makes, and dump and save *)

RawTypes == {0, 1, 7, 14, 15, 21}
LiveTypes == {13, 20}
ArmFirmware == 768
FirmwareHeaderSize == 16
FirmwareDataSize == 128
CopyChunk == 65536
UniqueTries == 100

NoObj == [type |-> 0, class |-> "", payload |-> <<>>, fwtype |-> 0, versions |-> <<>>]

ClassOf(type) ==
    IF type = 0 THEN "EntryType0" ELSE IF type = 1 THEN "EntryType1"
    ELSE IF type = 3 THEN "EntryType3Firmware" ELSE IF type = 6 THEN "EntryType6Firmware"
    ELSE IF type = 7 THEN "EntryType7" ELSE IF type = 13 THEN "EntryType13"
    ELSE IF type = 14 THEN "EntryType14" ELSE IF type = 15 THEN "EntryType15"
    ELSE IF type = 20 THEN "EntryType20" ELSE IF type = 21 THEN "EntryType21"
    ELSE "EntryUnknown"

\* self.fwtype and the version triples of EntryType3Firmware (one triple) and
\* EntryType6Firmware (three)
RECURSIVE ReadTriples(_, _, _, _)
ReadTriples(data, chain, c, k) ==
    IF k = 0 THEN c
    ELSE ReadTriples(data, chain,
                     reads16le(data, chain, reads16le(data, chain, reads16le(data, chain, c))),
                     k - 1)

Triples(vals, k) == [i \in 1..k |-> SubSeq(vals, 3 * i - 1, 3 * i + 1)]

\* the constructor of the variant for an entry of the given type, on the
\* FileReader fh (the entry's entfh) positioned at pos
Construct(data, type, fh, pos) ==
    IF type \in LiveTypes
    THEN [err |-> "", pos |-> pos, eof |-> fh.eof, fwfh |-> None,
          obj |-> [NoObj EXCEPT !.type = type, !.class = ClassOf(type)]]
    ELSE IF type \in {3, 6}
    THEN With(ReadTriples(data, fh.chain, read16le(data, fh.chain, Cursor(pos, fh.eof)),
                          IF type = 3 THEN 1 ELSE 3), LAMBDA c :
             IF c.err # ""
             THEN [err |-> c.err, pos |-> c.pos, eof |-> c.eof, fwfh |-> None, obj |-> NoObj]
             ELSE [err |-> "", pos |-> c.pos, eof |-> c.eof,
                   fwfh |-> Some(FileReaderSubreader([chain |-> fh.chain, eof |-> c.eof],
                                                     c.pos, None)),
                   obj |-> [NoObj EXCEPT !.type = type, !.class = ClassOf(type),
                                         !.fwtype = c.vals[1],
                                         !.versions = Triples(c.vals,
                                                              IF type = 3 THEN 1 ELSE 3)]])
    ELSE With(ReadBytes(data, fh.chain, Cursor(pos, fh.eof), None), LAMBDA c :
             [err |-> c.err, pos |-> c.pos, eof |-> c.eof, fwfh |-> None,
              obj |-> IF c.err # "" THEN NoObj
                      ELSE [NoObj EXCEPT !.type = type, !.class = ClassOf(type),
                                         !.payload = c.vals[1]]])

\* an enumeration that leaves the entry's view where it is
NoRewind(data, fh, pos) == [err |-> "", pos |-> pos, ret |-> SRTell(fh.chain, pos), eof |-> fh.eof]

\* ent.entfh.seek(0) of enumentries
Rewind(data, fh, pos) == FileReaderSeek(data, fh, pos, 0, SEEK_SET)

\* one round of the loop of enumentries(): reset the entry's view, construct
\* the variant
Enumerate(data, ent, pos) ==
    With(Rewind(data, ent.entfh, pos), LAMBDA s :
        IF s.err # ""
        THEN [err |-> s.err, pos |-> s.pos, eof |-> s.eof, fwfh |-> None, obj |-> NoObj]
        ELSE Construct(data, ent.type, [chain |-> ent.entfh.chain, eof |-> s.eof], s.pos))

NoPrint == [zero |-> 0, checksum |-> 0, zero2 |-> 0, imagesize |-> 0, version |-> <<>>,
            data |-> <<>>, header |-> FALSE]

\* FirmwareType3.__init__(fh)
FirmwareType3(data, fh, pos) ==
    With(ReadBytes(data, fh.chain,
             reads16le(data, fh.chain, reads16le(data, fh.chain, read32le(data, fh.chain,
                 read16le(data, fh.chain, read16le(data, fh.chain,
                     read32le(data, fh.chain, Cursor(pos, fh.eof))))))),
             Some(FirmwareDataSize)), LAMBDA c :
        [err |-> c.err, pos |-> c.pos, eof |-> c.eof,
         fw |-> IF c.err # "" THEN NoPrint
                ELSE [zero |-> c.vals[1], checksum |-> c.vals[2], zero2 |-> c.vals[3],
                      imagesize |-> c.vals[4], version |-> <<c.vals[5], c.vals[6]>>,
                      data |-> c.vals[7], header |-> TRUE]])

\* EntryType3Firmware.dump / EntryType6Firmware.dump on the object's fwfh
FirmwareDump(data, obj, fwfh, pos) ==
    With(FileReaderSeek(data, fwfh, pos, 0, SEEK_SET), LAMBDA s :
        IF s.err # "" THEN [err |-> s.err, pos |-> s.pos, eof |-> s.eof, fw |-> NoPrint]
        ELSE IF obj.fwtype = ArmFirmware
        THEN FirmwareType3(data, [chain |-> fwfh.chain, eof |-> s.eof], s.pos)
        ELSE With(FileReaderRead(data, [chain |-> fwfh.chain, eof |-> s.eof], s.pos,
                                 Some(FirmwareDataSize), FALSE), LAMBDA r :
                 [err |-> IF r.err = "" /\ r.none THEN "AttributeError" ELSE r.err,
                  pos |-> r.pos, eof |-> r.eof,
                  fw |-> [NoPrint EXCEPT !.data = r.data]]))

\* copyfile(ifh, ofh): out is what ofh holds
RECURSIVE copyfile(_, _, _, _)
copyfile(data, ifh, pos, out) ==
    With(FileReaderRead(data, ifh, pos, Some(CopyChunk), FALSE), LAMBDA r :
        IF r.err # "" THEN [err |-> r.err, pos |-> r.pos, eof |-> r.eof, out |-> out]
        ELSE IF r.none \/ r.data = <<>>
        THEN [err |-> "", pos |-> r.pos, eof |-> r.eof, out |-> out]
        ELSE copyfile(data, [chain |-> ifh.chain, eof |-> r.eof], r.pos, out \o r.data))

Exists(dir, name) == \E i \in DOMAIN dir : dir[i].name = name

FirmwareName(fwtype, ver) == [prefix |-> "fw", id |-> <<fwtype>> \o ver]

UniqueFile(prefix, i) == [prefix |-> prefix, id |-> <<i>>]

\* savefirmware(savedir, fwtype, version, fh)
savefirmware(data, dir, fwtype, ver, fh, pos) ==
    IF Exists(dir, FirmwareName(fwtype, ver))
    THEN [err |-> "", pos |-> pos, eof |-> fh.eof, dir |-> dir]
    ELSE With(copyfile(data, fh, pos, <<>>), LAMBDA c :
             [err |-> c.err, pos |-> c.pos, eof |-> c.eof,
              dir |-> Append(dir, [name |-> FirmwareName(fwtype, ver), bytes |-> c.out])])

\* EntryType3Firmware.save / EntryType6Firmware.save on the object's fwfh
FirmwareSave(data, dir, obj, fwfh, pos) ==
    With(FileReaderSeek(data, fwfh, pos,
                        IF obj.fwtype = ArmFirmware THEN FirmwareHeaderSize ELSE 0,
                        SEEK_SET), LAMBDA s :
        IF s.err # "" THEN [err |-> s.err, pos |-> s.pos, eof |-> s.eof, dir |-> dir]
        ELSE savefirmware(data, dir, obj.fwtype, obj.versions[1],
                          [chain |-> fwfh.chain, eof |-> s.eof], s.pos))

\* the name the loop of saveunique settles on
RECURSIVE UniqueIndex(_, _, _)
UniqueIndex(dir, prefix, i) ==
    IF i = UniqueTries - 1 \/ ~Exists(dir, UniqueFile(prefix, i)) THEN i
    ELSE UniqueIndex(dir, prefix, i + 1)

\* saveunique(savedir, prefix, fh): after the loop the function reads self.fh,
\* and no name self is bound in it
saveunique(data, dir, prefix, fh, pos) ==
    LET fn == UniqueFile(prefix, UniqueIndex(dir, prefix, 0))
    IN  [err |-> "NameError", pos |-> pos, eof |-> fh.eof, dir |-> dir, fn |-> fn]

-----------------------------------------------------------------------------
(* The container files decoded.  A layout lists a file's fields; Encode     *)
(* writes them out as section 6 of the format description lays them out.    *)

RECURSIVE Pow256(_)
Pow256(k) == IF k = 0 THEN 1 ELSE 256 * Pow256(k - 1)

Le(x, k) == [i \in 1..k |-> (x \div Pow256(i - 1)) % 256]
S16(x) == Le((x + 65536) % 65536, 2)
Fill(n, base) == [i \in 1..n |-> (base + i - 1) % 256]
Zeros(n) == [i \in 1..n |-> 0]

RECURSIVE Concat(_)
Concat(ss) == IF ss = <<>> THEN <<>> ELSE ss[1] \o Concat(Tail(ss))

MagicBytes == <<85, 102, 171, 95, 20, 25, 57, 102>>
BadMagicBytes == <<85, 102, 171, 95, 20, 25, 57, 103>>

Entry(size, type, payload, checksum) ==
    [size |-> size, type |-> type, payload |-> payload, checksum |-> checksum]

EncodeEntry(e) == Le(e.size, 4) \o Le(e.type, 2) \o e.payload \o Le(e.checksum, 2)

Encode(f) ==
    f.magic \o Le(f.version, 4) \o Le(f.declared, 4)
        \o Concat([i \in DOMAIN f.entries |-> EncodeEntry(f.entries[i])]) \o f.tail

Triple(v) == S16(v[1]) \o S16(v[2]) \o S16(v[3])

FwHeader(zero, checksum, zero2, imagesize, pair, data) ==
    Le(zero, 4) \o Le(checksum, 2) \o Le(zero2, 2) \o Le(imagesize, 4)
        \o S16(pair[1]) \o S16(pair[2]) \o data

Fw3Payload(fwtype, ver, rest) == Le(fwtype, 2) \o Triple(ver) \o rest

Fw6Payload(fwtype, v1, v2, v3, rest) ==
    Le(fwtype, 2) \o Triple(v1) \o Triple(v2) \o Triple(v3) \o rest

Whole(payload, type, checksum) == Entry(Len(payload), type, payload, checksum)

Layout(magic, ver, declared, ents, tail) ==
    [magic |-> magic, version |-> ver, declared |-> declared, entries |-> ents, tail |-> tail]

\* the firmware header of the type-3 scenario: zero=0, checksum=0x1234, zero2=0,
\* imagesize=0x100, version=(1,2), 128 zero bytes
ScenarioHeader == FwHeader(0, 4660, 0, 256, <<1, 2>>, Zeros(128))

SmallEntries ==
    <<Whole(Fill(3, 10), 0, 7), Whole(Fill(2, 20), 7, 8), Whole(Fill(1, 30), 99, 9)>>

\* 1: the one-entry scenario: declared_size=0x0A, {size=6, type=0, "abcdef"}
LayoutExample ==
    Layout(MagicBytes, 1, 10, <<Whole(<<97, 98, 99, 100, 101, 102>>, 0, 0)>>, Le(0, 2))
\* 2: two entries, the second empty, the declared size their exact span
LayoutTwo ==
    Layout(MagicBytes, 2, 19, <<Whole(Fill(3, 10), 0, 7), Whole(<<>>, 1, 8)>>, Le(9, 2))
\* 3: three entries, the declared size ends with the second
LayoutExactShort == Layout(MagicBytes, 1, 21, SmallEntries, Le(5, 2))
\* 4: three entries, the declared size ends inside the second
LayoutCrossShort == Layout(MagicBytes, 1, 15, SmallEntries, Le(5, 2))
\* 5: a type-3 entry for the arm firmware: fwtype, version, firmware header
LayoutFw3Arm ==
    Layout(MagicBytes, 1, 160,
           <<Whole(Fw3Payload(ArmFirmware, <<4, 0 - 5, 6>>, ScenarioHeader), 3, 1)>>, Le(0, 2))
\* 6: a type-3 entry whose payload is the firmware header itself
LayoutFw3Bare == Layout(MagicBytes, 1, 152, <<Whole(ScenarioHeader, 3, 1)>>, Le(0, 2))
\* 7: a type-6 arm entry with 15 bytes after its versions, and a second entry
LayoutFw6Short15 ==
    Layout(MagicBytes, 1, 53,
           <<Whole(Fw6Payload(ArmFirmware, <<1, 2, 3>>, <<4, 5, 6>>, <<7, 8, 9>>, Fill(15, 100)), 6, 1),
             Whole(Fill(2, 200), 0, 2)>>, Le(0, 2))
\* 8: a type-6 arm entry with 5 bytes after its versions, and a second entry
LayoutFw6Short5 ==
    Layout(MagicBytes, 1, 43,
           <<Whole(Fw6Payload(ArmFirmware, <<1, 2, 3>>, <<4, 5, 6>>, <<7, 8, 9>>, Fill(5, 100)), 6, 1),
             Whole(Fill(2, 200), 0, 2)>>, Le(0, 2))
\* 9: type-6 entries with 20, 3, 0 and 16 bytes after their versions, and one
\* that repeats the name of the second
LayoutFw6 ==
    Layout(MagicBytes, 1, 181,
           <<Whole(Fw6Payload(ArmFirmware, <<1, 2, 3>>, <<4, 5, 6>>, <<7, 8, 9>>, Fill(20, 100)), 6, 1),
             Whole(Fw6Payload(512, <<1, 0 - 1, 0>>, <<0, 0, 0>>, <<0, 0, 0>>, Fill(3, 150)), 6, 2),
             Whole(Fw6Payload(3328, <<2, 0, 0>>, <<0, 0, 0>>, <<0, 0, 0>>, <<>>), 6, 3),
             Whole(Fw6Payload(ArmFirmware, <<3, 0, 0>>, <<0, 0, 0>>, <<0, 0, 0>>, Fill(16, 60)), 6, 4),
             Whole(Fw6Payload(512, <<1, 0 - 1, 0>>, <<1, 1, 1>>, <<0, 0, 0>>, Fill(2, 220)), 6, 5)>>,
           Le(0, 2))
\* 10: two type-13 entries and a type-20 entry
LayoutLive ==
    Layout(MagicBytes, 1, 31,
           <<Whole(Fill(3, 50), 13, 1), Whole(Fill(2, 60), 13, 2), Whole(Fill(2, 70), 20, 3)>>,
           Le(0, 2))
\* 11: the magic off by one byte
LayoutBadMagic ==
    Layout(BadMagicBytes, 2, 19, <<Whole(Fill(3, 10), 0, 7), Whole(<<>>, 1, 8)>>, Le(9, 2))
\* 12: an entry whose size points past the end of the file
LayoutTruncated == Layout(MagicBytes, 1, 108, <<Entry(100, 0, Fill(3, 10), 7)>>, <<>>)
\* 13: the declared size larger than the span of the entries
LayoutDeclaredLong ==
    Layout(MagicBytes, 2, 40, <<Whole(Fill(3, 10), 0, 7), Whole(<<>>, 1, 8)>>, Le(9, 2))
\* 14: a type-3 entry too short for its fwtype and version
LayoutFw3Tiny ==
    Layout(MagicBytes, 1, 23, <<Whole(Fill(3, 10), 0, 7), Whole(Fill(4, 40), 3, 8)>>, Le(9, 2))

\* 15..22: a well-formed file but for the k-th byte of its magic, k = 1..8
LayoutOffMagic(k) ==
    Layout([MagicBytes EXCEPT ![k] = MagicBytes[k] + 1], 2, 19,
           <<Whole(Fill(3, 10), 0, 7), Whole(<<>>, 1, 8)>>, Le(9, 2))

Layouts ==
    <<LayoutExample, LayoutTwo, LayoutExactShort, LayoutCrossShort, LayoutFw3Arm,
      LayoutFw3Bare, LayoutFw6Short15, LayoutFw6Short5, LayoutFw6, LayoutLive,
      LayoutBadMagic, LayoutTruncated, LayoutDeclaredLong, LayoutFw3Tiny>>
        \o [k \in 1..8 |-> LayoutOffMagic(k)]

BsufFiles == [i \in DOMAIN Layouts |-> Encode(Layouts[i])]

(* The files the entry loop is run on: a valid header with one of a few     *)
(* declared sizes, up to MaxLoopEntries entries whose size field is 0, 1 or *)
(* 100 and whose payload is empty or one byte (so the size field may agree  *)
(* with the payload, fall short of it, or point past the end of the file),  *)
(* a file checksum, and up to MaxCut bytes missing at the end.              *)

MaxLoopEntries == 2
MaxCut == 8

LoopDeclared == <<0, 8, 9, 100>>

\* what an entry slot may hold: nothing, or one entry
LoopSlots ==
    << <<>>,
       <<Entry(0, 0, <<>>, 0)>>, <<Entry(0, 0, <<5>>, 0)>>,
       <<Entry(1, 0, <<>>, 0)>>, <<Entry(1, 0, <<5>>, 0)>>,
       <<Entry(100, 0, <<>>, 0)>>, <<Entry(100, 0, <<5>>, 0)>> >>

RECURSIVE Power(_, _)
Power(b, k) == IF k = 0 THEN 1 ELSE b * Power(b, k - 1)

NumLoopFiles == (MaxCut + 1) * Len(LoopDeclared) * Power(Len(LoopSlots), MaxLoopEntries)

\* the entries of the slots numbered by the digits of n, base Len(LoopSlots)
RECURSIVE LoopEntries(_, _)
LoopEntries(n, k) ==
    IF k = 0 THEN <<>>
    ELSE LoopSlots[(n % Len(LoopSlots)) + 1] \o LoopEntries(n \div Len(LoopSlots), k - 1)

\* the n-th file, n in 0..NumLoopFiles-1: n numbers the cut, the declared
\* size and the slots
LoopLayout(n) ==
    Layout(MagicBytes, 1,
           LoopDeclared[((n \div (MaxCut + 1)) % Len(LoopDeclared)) + 1],
           LoopEntries(n \div ((MaxCut + 1) * Len(LoopDeclared)), MaxLoopEntries),
           Le(0, 2))

LoopFile(n) ==
    SubSeq(Encode(LoopLayout(n)), 1, Len(Encode(LoopLayout(n))) - (n % (MaxCut + 1)))

-----------------------------------------------------------------------------
(* The byte string the file object holds *)

FileBytes ==
    IF fileId = 0 THEN RangeBytes(DataLen)
    ELSE IF fileId <= Len(Layouts) THEN BsufFiles[fileId]
    ELSE LoopFile(fileId - Len(Layouts) - 1)

-----------------------------------------------------------------------------
(* The readers under test.  As in TestReader, a run exercises either a      *)
(* DataReader or a FileReader over the same bytes, and the readers made     *)
(* from it by subreader().                                                  *)

ReadArgs == {None} \cup {Some(k) : k \in 0..(DataLen + 1)}
SubreaderArgs == {None} \cup {Some(k) : k \in 0..(DataLen - 1)}
SeekOffsets == (0 - 2)..(DataLen + MaxPast)
Whences == {SEEK_SET, SEEK_CUR, SEEK_END}

NoCall ==
    [impl |-> "", op |-> "", r |-> 0, n |-> None, err |-> "", none |-> FALSE,
     data |-> <<>>, before |-> 0, after |-> 0, eofBefore |-> FALSE]

\* the container state before BsufFile is constructed
InitContainer ==
    /\ phase = "init"
    /\ topEof = FALSE
    /\ version = 0
    /\ filesize = 0
    /\ warned = FALSE
    /\ entries = <<>>
    /\ filechecksum = 0
    /\ err = ""
    /\ passes = 0
    /\ mode = ""
    /\ pending = FALSE
    /\ objs = <<>>
    /\ first = <<>>
    /\ cur = None
    /\ printed = NoPrint
    /\ savedir = <<>>

InitReaders ==
    /\ fileId = 0
    /\ fpos = 0
    /\ InitContainer
    /\ \/ dreaders = <<DataReader(FileBytes)>> /\ freaders = <<>>
       \/ dreaders = <<>> /\ freaders = <<FileReader(<<>>)>>
    /\ last = NoCall

DRead(r, n) ==
    LET res == DataReaderRead(dreaders[r], n)
    IN  /\ dreaders' = [dreaders EXCEPT ![r] = res.dr]
        /\ last' = [impl |-> "DataReader", op |-> "read", r |-> r, n |-> n,
                    err |-> res.err, none |-> FALSE, data |-> res.data,
                    before |-> DataReaderTell(dreaders[r]),
                    after |-> DataReaderTell(res.dr),
                    eofBefore |-> dreaders[r].eof]
        /\ UNCHANGED <<fileId, fpos, freaders, bvars>>

DReadbyte(r) ==
    LET res == DataReaderReadbyte(dreaders[r])
    IN  /\ dreaders' = [dreaders EXCEPT ![r] = res.dr]
        /\ last' = [impl |-> "DataReader", op |-> "readbyte", r |-> r, n |-> Some(1),
                    err |-> res.err, none |-> FALSE, data |-> res.data,
                    before |-> DataReaderTell(dreaders[r]),
                    after |-> DataReaderTell(res.dr),
                    eofBefore |-> dreaders[r].eof]
        /\ UNCHANGED <<fileId, fpos, freaders, bvars>>

DSeek(r, ofs, whence) ==
    LET res == DataReaderSeek(dreaders[r], ofs, whence)
    IN  /\ res.dr.pos <= Len(dreaders[r].data) + MaxPast
        /\ dreaders' = [dreaders EXCEPT ![r] = res.dr]
        /\ last' = [NoCall EXCEPT !.impl = "DataReader", !.op = "seek", !.r = r,
                                  !.err = res.err]
        /\ UNCHANGED <<fileId, fpos, freaders, bvars>>

DSubreader(r, n) ==
    /\ Len(dreaders) < MaxReaders
    /\ dreaders' = Append(dreaders, DataReaderSubreader(dreaders[r], n))
    /\ last' = [NoCall EXCEPT !.impl = "DataReader", !.op = "subreader", !.r = r]
    /\ UNCHANGED <<fileId, fpos, freaders, bvars>>

FRead(r, n) ==
    \E res \in {FileReaderRead(FileBytes, freaders[r], fpos, n, FALSE)} :
        /\ freaders' = [freaders EXCEPT ![r].eof = res.eof]
        /\ fpos' = res.pos
        /\ last' = [impl |-> "FileReader", op |-> "read", r |-> r, n |-> n,
                    err |-> res.err, none |-> res.none, data |-> res.data,
                    before |-> SRTell(freaders[r].chain, fpos),
                    after |-> SRTell(freaders[r].chain, res.pos),
                    eofBefore |-> freaders[r].eof]
        /\ UNCHANGED <<fileId, dreaders, bvars>>

FReadbyte(r) ==
    \E res \in {FileReaderReadbyte(FileBytes, freaders[r], fpos)} :
        /\ freaders' = [freaders EXCEPT ![r].eof = res.eof]
        /\ fpos' = res.pos
        /\ last' = [impl |-> "FileReader", op |-> "readbyte", r |-> r, n |-> Some(1),
                    err |-> res.err, none |-> res.none, data |-> res.data,
                    before |-> SRTell(freaders[r].chain, fpos),
                    after |-> SRTell(freaders[r].chain, res.pos),
                    eofBefore |-> freaders[r].eof]
        /\ UNCHANGED <<fileId, dreaders, bvars>>

FSeek(r, ofs, whence) ==
    \E res \in {FileReaderSeek(FileBytes, freaders[r], fpos, ofs, whence)} :
        /\ res.pos <= Len(FileBytes) + MaxPast
        /\ freaders' = [freaders EXCEPT ![r].eof = res.eof]
        /\ fpos' = res.pos
        /\ last' = [NoCall EXCEPT !.impl = "FileReader", !.op = "seek", !.r = r,
                                  !.err = res.err]
        /\ UNCHANGED <<fileId, dreaders, bvars>>

FSubreader(r, n) ==
    /\ Len(freaders) < MaxReaders
    /\ freaders' = Append(freaders, FileReaderSubreader(freaders[r], fpos, n))
    /\ last' = [NoCall EXCEPT !.impl = "FileReader", !.op = "subreader", !.r = r]
    /\ UNCHANGED <<fileId, fpos, dreaders, bvars>>

NextReaders ==
    \/ \E r \in DOMAIN dreaders, n \in ReadArgs : DRead(r, n)
    \/ \E r \in DOMAIN dreaders : DReadbyte(r)
    \/ \E r \in DOMAIN dreaders, ofs \in SeekOffsets, w \in Whences : DSeek(r, ofs, w)
    \/ \E r \in DOMAIN dreaders, n \in SubreaderArgs : DSubreader(r, n)
    \/ \E r \in DOMAIN freaders, n \in ReadArgs : FRead(r, n)
    \/ \E r \in DOMAIN freaders : FReadbyte(r)
    \/ \E r \in DOMAIN freaders, ofs \in SeekOffsets, w \in Whences : FSeek(r, ofs, w)
    \/ \E r \in DOMAIN freaders, n \in SubreaderArgs : FSubreader(r, n)

SpecReaders == InitReaders /\ [][NextReaders]_vars


-----------------------------------------------------------------------------
(* Decoding a container and using it: main() opens a file, constructs       *)
(* BsufFile (header, entry loop, file checksum), and the entries are then   *)
(* iterated with enumentries(): by dump(), by save(savedir), or by a caller *)
(* of its own that seeks and reads the views it is handed.                  *)

\* how many iterations of enumentries() a run starts at most
MaxPasses == 2

ConsumerSeeks == {<<0, SEEK_SET>>, <<2, SEEK_SET>>, <<0 - 1, SEEK_END>>, <<1, SEEK_END>>}
ConsumerReads == {None, Some(1), Some(4)}

InitBsuf ==
    /\ fileId \in DOMAIN Layouts
    /\ fpos = 0
    /\ dreaders = <<>>
    /\ freaders = <<>>
    /\ last = NoCall
    /\ InitContainer

uvars == <<passes, mode, pending, objs, first, cur, printed, savedir>>

\* BsufFile.__init__: magic, version, declared size, size warning
ReadHeader ==
    /\ phase = "init"
    /\ \E data \in {FileBytes} : \E h \in {BsufHeader(data, fpos, topEof)} :
           /\ fpos' = h.pos
           /\ topEof' = h.eof
           /\ err' = h.err
           /\ phase' = IF h.err = "" THEN "entries" ELSE "failed"
           /\ version' = h.version
           /\ filesize' = h.filesize
           /\ warned' = h.warned
    /\ UNCHANGED <<fileId, dreaders, freaders, last, entries, filechecksum, uvars>>

\* BsufFile.__init__: one round of the entry loop
ReadEntry ==
    /\ phase = "entries"
    /\ MoreEntries(fpos, filesize)
    /\ \E data \in {FileBytes} : \E e \in {BsufEntry(data, fpos, topEof)} :
           /\ fpos' = e.pos
           /\ topEof' = e.eof
           /\ err' = e.err
           /\ phase' = IF e.err = "" THEN "entries" ELSE "failed"
           /\ entries' = IF e.err = "" THEN Append(entries, e.entry) ELSE entries
    /\ UNCHANGED <<fileId, dreaders, freaders, last, version, filesize, warned,
                   filechecksum, uvars>>

\* BsufFile.__init__: the loop ends, the file checksum is read
ReadFileChecksum ==
    /\ phase = "entries"
    /\ ~MoreEntries(fpos, filesize)
    /\ \E data \in {FileBytes} : \E c \in {read16le(data, <<>>, Cursor(fpos, topEof))} :
           /\ fpos' = c.pos
           /\ topEof' = c.eof
           /\ err' = c.err
           /\ phase' = IF c.err = "" THEN "ready" ELSE "failed"
           /\ filechecksum' = IF c.err = "" THEN c.vals[1] ELSE filechecksum
    /\ UNCHANGED <<fileId, dreaders, freaders, last, version, filesize, warned,
                   entries, uvars>>

dvars == <<fileId, dreaders, freaders, last, phase, topEof, version, filesize, warned,
           filechecksum>>

\* a caller starts iterating enumentries(): dump(), save(savedir), or its own loop
StartPass(m) ==
    /\ phase = "ready"
    /\ mode = ""
    /\ passes < MaxPasses
    /\ passes' = passes + 1
    /\ mode' = m
    /\ objs' = <<>>
    /\ cur' = None
    /\ err' = ""
    /\ UNCHANGED <<dvars, fpos, entries, pending, first, printed, savedir>>

\* enumentries(): the next entry's view is reset, its variant constructed and
\* yielded; an exception ends the iteration
Yield ==
    /\ mode # ""
    /\ ~pending
    /\ Len(objs) < Len(entries)
    /\ \E y \in {Enumerate(FileBytes, entries[Len(objs) + 1], fpos)} :
           /\ fpos' = y.pos
           /\ entries' = [entries EXCEPT ![Len(objs) + 1].entfh.eof = y.eof]
           /\ err' = y.err
           /\ IF y.err = ""
              THEN /\ objs' = Append(objs, y.obj)
                   /\ cur' = y.fwfh
                   /\ pending' = TRUE
                   /\ mode' = mode
                   /\ first' = IF passes = 1 THEN Append(first, y.obj) ELSE first
              ELSE /\ mode' = ""
                   /\ UNCHANGED <<objs, cur, pending, first>>
    /\ UNCHANGED <<dvars, passes, printed, savedir>>

\* the iteration is over
EndPass ==
    /\ mode # ""
    /\ ~pending
    /\ Len(objs) = Len(entries)
    /\ mode' = ""
    /\ UNCHANGED <<dvars, fpos, entries, err, passes, pending, objs, first, cur, printed,
                   savedir>>

\* the body of the loop of BsufFile.dump: obj.dump()
DumpBody ==
    /\ mode = "dump"
    /\ pending
    /\ pending' = FALSE
    /\ LET obj == Last(objs)
       IN  IF obj.type \in {3, 6}
           THEN \E d \in {FirmwareDump(FileBytes, obj, Val(cur), fpos)} :
                    /\ fpos' = d.pos
                    /\ cur' = Some([Val(cur) EXCEPT !.eof = d.eof])
                    /\ err' = d.err
                    /\ mode' = IF d.err = "" THEN mode ELSE ""
                    /\ printed' = d.fw
           ELSE /\ printed' = IF obj.type \in LiveTypes THEN printed
                              ELSE [NoPrint EXCEPT !.data = obj.payload]
                /\ UNCHANGED <<fpos, cur, err, mode>>
    /\ UNCHANGED <<dvars, entries, passes, objs, first, savedir>>

\* the body of the loop of BsufFile.save: obj.save(savedir)
SaveBody ==
    /\ mode = "save"
    /\ pending
    /\ pending' = FALSE
    /\ LET i == Len(objs)
           obj == objs[i]
       IN  IF obj.type \in {3, 6}
           THEN \E r \in {FirmwareSave(FileBytes, savedir, obj, Val(cur), fpos)} :
                    /\ fpos' = r.pos
                    /\ cur' = Some([Val(cur) EXCEPT !.eof = r.eof])
                    /\ err' = r.err
                    /\ mode' = IF r.err = "" THEN mode ELSE ""
                    /\ savedir' = r.dir
                    /\ UNCHANGED entries
           ELSE IF obj.type \in LiveTypes
           THEN \E r \in {saveunique(FileBytes, savedir,
                                       IF obj.type = 13 THEN "t13" ELSE "t20",
                                       entries[i].entfh, fpos)} :
                    /\ fpos' = r.pos
                    /\ entries' = [entries EXCEPT ![i].entfh.eof = r.eof]
                    /\ err' = r.err
                    /\ mode' = IF r.err = "" THEN mode ELSE ""
                    /\ savedir' = r.dir
                    /\ UNCHANGED cur
           ELSE UNCHANGED <<fpos, cur, err, mode, savedir, entries>>
    /\ UNCHANGED <<dvars, passes, objs, first, printed>>

\* the body of a caller's own loop over enumentries(): what it does with the
\* views is ConsumerSeek and ConsumerRead
EnumBody ==
    /\ mode = "enum"
    /\ pending
    /\ pending' = FALSE
    /\ UNCHANGED <<dvars, fpos, entries, err, passes, mode, objs, first, cur, printed,
                   savedir>>

\* the views of the object a caller's loop has in hand: the entry's entfh
\* (v = its index) and the object's fwfh (v = 0)
Views == {Len(objs)} \cup (IF IsNone(cur) THEN {} ELSE {0})
ViewOf(v) == IF v = 0 THEN Val(cur) ELSE entries[v].entfh

ConsumerSeek(v, a) ==
    /\ mode = "enum"
    /\ pending
    /\ \E r \in {FileReaderSeek(FileBytes, ViewOf(v), fpos, a[1], a[2])} :
           /\ fpos' = r.pos
           /\ IF v = 0
              THEN cur' = Some([Val(cur) EXCEPT !.eof = r.eof]) /\ UNCHANGED entries
              ELSE entries' = [entries EXCEPT ![v].entfh.eof = r.eof] /\ UNCHANGED cur
    /\ UNCHANGED <<dvars, err, passes, mode, pending, objs, first, printed, savedir>>

ConsumerRead(v, n) ==
    /\ mode = "enum"
    /\ pending
    /\ \E r \in {FileReaderRead(FileBytes, ViewOf(v), fpos, n, FALSE)} :
           /\ fpos' = r.pos
           /\ IF v = 0
              THEN cur' = Some([Val(cur) EXCEPT !.eof = r.eof]) /\ UNCHANGED entries
              ELSE entries' = [entries EXCEPT ![v].entfh.eof = r.eof] /\ UNCHANGED cur
    /\ UNCHANGED <<dvars, err, passes, mode, pending, objs, first, printed, savedir>>

NextBsuf ==
    \/ ReadHeader
    \/ ReadEntry
    \/ ReadFileChecksum
    \/ \E m \in {"dump", "save", "enum"} : StartPass(m)
    \/ Yield
    \/ EndPass
    \/ DumpBody
    \/ SaveBody
    \/ EnumBody
    \/ \E v \in Views, a \in ConsumerSeeks : ConsumerSeek(v, a)
    \/ \E v \in Views, n \in ConsumerReads : ConsumerRead(v, n)

SpecBsuf == InitBsuf /\ [][NextBsuf]_vars

-----------------------------------------------------------------------------
(* The constructor alone, on the files of the entry loop.  BsufFile.__init__ *)
(* runs its statements one after another and nothing suspends it, so a step *)
(* that can be taken is taken.                                              *)

InitLoop ==
    /\ fileId \in (Len(Layouts) + 1)..(Len(Layouts) + NumLoopFiles)
    /\ fpos = 0
    /\ dreaders = <<>>
    /\ freaders = <<>>
    /\ last = NoCall
    /\ InitContainer

NextLoop ==
    \/ ReadHeader
    \/ ReadEntry
    \/ ReadFileChecksum

SpecLoop == InitLoop /\ [][NextLoop]_vars /\ WF_vars(NextLoop)

-----------------------------------------------------------------------------
(* Claims about the readers, checked under SpecReaders.  FileBytes holds    *)
(* byte i at offset i, so a byte read names the offset it was read from.    *)

LastIsRead == last.op = "read" /\ ~IsNone(last.n)

\* C1: read(n) with default arguments either returns exactly n bytes and
\* advances the position by n, or fails with EOFError, returns no bytes and
\* leaves tell() where it was.
C1_ReadExactOrEof ==
    LastIsRead =>
        \/ /\ last.err = ""
           /\ ~last.none
           /\ Len(last.data) = Val(last.n)
           /\ last.after = last.before + Val(last.n)
        \/ /\ last.err = "EOFError"
           /\ last.data = <<>>
           /\ last.after = last.before

\* the absolute offset of a view's local position 0
RECURSIVE Base(_)
Base(chain) == IF chain = <<>> THEN 0 ELSE Base(Front(chain)) + Last(chain).start

\* offset off of the file lies inside every bounded window of the chain
InWindows(chain, off) ==
    \A k \in 1..Len(chain) :
        \/ IsNone(chain[k].end)
        \/ /\ Base(SubSeq(chain, 1, k)) <= off
           /\ off < Base(SubSeq(chain, 1, k - 1)) + Val(chain[k].end)

Bounded(chain) == \E k \in 1..Len(chain) : ~IsNone(chain[k].end)

\* the size of the innermost window of a chain whose last range is bounded
WindowSize(chain) == Val(Last(chain).end) - Last(chain).start

\* C2: a read through a bounded sub-view never returns a byte outside its
\* window, whatever seeks and reads came before; and from a position inside
\* the window a read(n) with n beyond the remaining bytes returns exactly the
\* remaining bytes without raising.
C2_ViewStaysInWindow ==
    (last.impl = "FileReader" /\ last.op = "read" /\ Bounded(freaders[last.r].chain)) =>
        /\ \A i \in DOMAIN last.data : InWindows(freaders[last.r].chain, last.data[i])
        /\ (/\ ~IsNone(Last(freaders[last.r].chain).end)
            /\ ~last.eofBefore
            /\ last.before \in 0..WindowSize(freaders[last.r].chain)
            /\ ~IsNone(last.n)
            /\ Val(last.n) > WindowSize(freaders[last.r].chain) - last.before) =>
                /\ last.err = ""
                /\ Len(last.data) <= WindowSize(freaders[last.r].chain) - last.before

\* C5: with the EOF state set (by a read that asked for more than there was,
\* and no seek since), read(n) and readbyte() fail with EOFError.
C5_EofLatched ==
    (last.op \in {"read", "readbyte"} /\ last.eofBefore) => last.err = "EOFError"

\* eof() of the reader the last call was made on
LastReaderEof ==
    IF last.impl = "DataReader" THEN DataReaderEof(dreaders[last.r])
    ELSE freaders[last.r].eof

\* the reads of the reader the last call was made on that lie within its data
\* all succeed
LastReaderReadsWithin ==
    IF last.impl = "DataReader"
    THEN LET dr == dreaders[last.r]
         IN  \A n \in 0..DataLen :
                dr.pos + n <= Len(dr.data) => DataReaderRead(dr, Some(n)).err = ""
    ELSE LET rd == freaders[last.r]
             here == Base(rd.chain) + SRTell(rd.chain, fpos)
         IN  \A n \in 0..DataLen :
                (here + n <= Len(FileBytes)
                    /\ \A o \in here..(here + n - 1) : InWindows(rd.chain, o)) =>
                LET res == FileReaderRead(FileBytes, rd, fpos, Some(n), FALSE)
                IN  res.err = "" /\ ~res.none /\ Len(res.data) = n

\* C6: right after any seek that returned, eof() is false and a read that lies
\* within the data succeeds.
C6_SeekClearsEof ==
    (last.op = "seek" /\ last.err = "") => (~LastReaderEof /\ LastReaderReadsWithin)


-----------------------------------------------------------------------------
(* Claims about the container, checked under SpecBsuf.  Lay is the layout   *)
(* of the file being decoded: what was written into it.                     *)

Lay == Layouts[fileId]

\* offset of the first byte (the size field) of the layout's k-th entry
RECURSIVE EntryStart(_, _)
EntryStart(f, k) ==
    IF k = 1 THEN HeaderSize
    ELSE EntryStart(f, k - 1) + 8 + Len(f.entries[k - 1].payload)

\* offset just past the checksum of the layout's k-th entry (k = 0: the header)
EntryEnd(f, k) == EntryStart(f, k + 1)

Span(f) == EntryEnd(f, Len(f.entries)) - HeaderSize

WellFramed(f) ==
    /\ f.magic = MagicBytes
    /\ \A k \in DOMAIN f.entries : f.entries[k].size = Len(f.entries[k].payload)

\* the entry loop of BsufFile.__init__ has just ended
LoopEnded == phase = "entries" /\ ~MoreEntries(fpos, filesize)

DeclaredShort == WellFramed(Lay) /\ Lay.declared < Span(Lay)

\* entry i of BsufFile.entries is the layout's i-th entry, as framed in the file
DecodedAs(i, f) ==
    /\ entries[i].size = f.entries[i].size
    /\ entries[i].type = f.entries[i].type
    /\ entries[i].ofs = EntryStart(f, i) + 6
    /\ entries[i].checksum = f.entries[i].checksum

\* C3 as stated: with declared_size smaller than the span of the entries, the
\* loop ends with the position exactly at declared_size+0x10 and no byte at or
\* beyond that offset belongs to a decoded entry.
C3_StopsExactlyAtDeclared ==
    (LoopEnded /\ DeclaredShort) =>
        /\ fpos = filesize + HeaderSize
        /\ \A i \in DOMAIN entries :
              entries[i].ofs + entries[i].size + 2 <= filesize + HeaderSize

\* C3 amended: with declared_size smaller than the span of the entries, the
\* loop ends at the end of the first entry that ends at or beyond
\* declared_size+0x10: every decoded entry starts before that offset, the
\* entries decoded are the file's entries up to there, in order, and the last
\* of them may reach past the offset; when an entry ends exactly at
\* declared_size+0x10 the loop ends exactly there.
C3_StopsAtFirstEntryEndPastDeclared ==
    (LoopEnded /\ DeclaredShort) =>
        /\ fpos >= filesize + HeaderSize
        /\ fpos = EntryEnd(Lay, Len(entries))
        /\ Len(entries) <= Len(Lay.entries)
        /\ \A i \in DOMAIN entries :
              /\ DecodedAs(i, Lay)
              /\ EntryStart(Lay, i) < filesize + HeaderSize
        /\ (\E k \in 0..Len(Lay.entries) : EntryEnd(Lay, k) = filesize + HeaderSize)
              => fpos = filesize + HeaderSize

\* the loop ended inside the file's entry data, past the declared offset
C3_Witness ==
    /\ LoopEnded
    /\ DeclaredShort
    /\ fpos > filesize + HeaderSize
    /\ Len(entries) < Len(Lay.entries)

\* what reading entry i's payload view from position 0 returns, whatever the
\* file position and the view's _eof are now
PayloadRead(i, n) ==
    With(Rewind(FileBytes, entries[i].entfh, fpos), LAMBDA s :
        FileReaderRead(FileBytes, [chain |-> entries[i].entfh.chain, eof |-> s.eof],
                       s.pos, n, FALSE))

\* the layout's entries that start before declared_size+0x10
Declared(f) == {k \in DOMAIN f.entries : EntryStart(f, k) < f.declared + HeaderSize}

\* the file holds its declared entries whole, then a file checksum
Complete(f) ==
    /\ WellFramed(f)
    /\ f.declared <= Span(f)
    /\ Len(f.tail) >= 2

\* C4: a container with valid magic and well-framed entries decodes to exactly
\* those entries, in file order, each with the size, type, start offset and
\* checksum of the file, and reading an entry's payload view from position 0
\* yields exactly its size payload bytes.
C4_DecodesFramedEntries ==
    Complete(Lay) =>
        /\ phase # "failed"
        /\ phase = "ready" =>
              /\ DOMAIN entries = Declared(Lay)
              /\ \A i \in DOMAIN entries :
                    /\ DecodedAs(i, Lay)
                    /\ PayloadRead(i, None).data = Lay.entries[i].payload
                    /\ PayloadRead(i, Some(entries[i].size + 1)).data = Lay.entries[i].payload
                    /\ PayloadRead(i, None).err = ""

\* the one-entry scenario is decoded, and a caller has since moved the file
\* position away from the entry's payload
C4_Witness ==
    /\ fileId = 1
    /\ phase = "ready"
    /\ Len(entries) = 1
    /\ entries[1].type = 0
    /\ PayloadRead(1, None).data = <<97, 98, 99, 100, 101, 102>>
    /\ mode = "enum"
    /\ fpos # entries[1].ofs

\* the file whose type-3 payload is the firmware header itself (zero,
\* checksum, zero2, imagesize, version pair, 128 data bytes)
BareHeaderFile == Lay = LayoutFw3Bare

\* C8 as stated: the entry dispatch decodes that payload into a variant whose
\* version is the encoded pair (1,2) and whose imagesize is 256.
C8_DispatchDecodesHeader ==
    (BareHeaderFile /\ objs # <<>>) =>
        /\ objs[1].versions = << <<1, 2>> >>
        /\ "imagesize" \in DOMAIN objs[1]
        /\ objs[1].imagesize = 256

\* the file whose type-3 payload is fwtype=0x300, a version triple, and then
\* the firmware header
ArmHeaderFile == Lay = LayoutFw3Arm

\* C8 amended: a type-3 payload laid out as fwtype (u16), version triple
\* (3 x i16), then the firmware header is decoded by the entry dispatch into
\* a variant holding fwtype and the triple; with fwtype 0x300, decoding the
\* variant's firmware view from position 0, as dump does, yields the encoded
\* version pair (1,2) and imagesize 256.
C8_DumpDecodesHeader ==
    (ArmHeaderFile /\ objs # <<>>) =>
        /\ objs[1].class = "EntryType3Firmware"
        /\ objs[1].fwtype = ArmFirmware
        /\ objs[1].versions = << <<4, 0 - 5, 6>> >>
        /\ ~IsNone(cur)
        /\ \E d \in {FirmwareDump(FileBytes, objs[1], Val(cur), fpos)} :
               /\ d.err = ""
               /\ d.fw.header
               /\ d.fw.version = <<1, 2>>
               /\ d.fw.imagesize = 256
               /\ d.fw.checksum = 4660
               /\ d.fw.data = Zeros(FirmwareDataSize)
        /\ (mode = "dump" /\ ~pending) =>
              (printed.header /\ printed.version = <<1, 2>> /\ printed.imagesize = 256)

\* dump has printed the firmware header of the arm entry
C8_Witness ==
    /\ ArmHeaderFile
    /\ mode = "dump"
    /\ ~pending
    /\ Len(objs) = 1
    /\ printed.header
    /\ printed.version = <<1, 2>>

\* the bytes of a type-6 payload after its fwtype and three version triples
Fw6Rest(payload) == SubSeq(payload, 21, Len(payload))

\* what the claim has save write for a type-6 entry
Fw6Expected(payload) ==
    IF FromLe(SubSeq(payload, 1, 2)) = ArmFirmware
    THEN SubSeq(Fw6Rest(payload), FirmwareHeaderSize + 1, Len(Fw6Rest(payload)))
    ELSE Fw6Rest(payload)

Fw6Name(payload) ==
    FirmwareName(FromLe(SubSeq(payload, 1, 2)),
                 <<Signed16(FromLe(SubSeq(payload, 3, 4))),
                   Signed16(FromLe(SubSeq(payload, 5, 6))),
                   Signed16(FromLe(SubSeq(payload, 7, 8)))>>)

\* the first type-6 entry of the layout saved under the given name
FirstNamed(f, name) ==
    {i \in DOMAIN f.entries :
        /\ f.entries[i].type = 6
        /\ Fw6Name(f.entries[i].payload) = name
        /\ \A j \in 1..(i - 1) :
              f.entries[j].type = 6 => Fw6Name(f.entries[j].payload) # name}

\* C9: the file a type-6 entry is saved to (one that did not exist before)
\* holds exactly the entry's remaining payload, without its first 0x10 bytes
\* when the subtype is 0x0300, and no byte from outside the entry's payload.
C9_SaveWritesRemainingPayload ==
    \A k \in DOMAIN savedir :
        \A i \in FirstNamed(Lay, savedir[k].name) :
            savedir[k].bytes = Fw6Expected(Lay.entries[i].payload)

\* C7: saving the type-13 and type-20 entries of a file completes, and after
\* each of them the target directory holds one more file, under a name of its
\* own, with that entry's bytes.
C7_SavesTwoDistinctFiles ==
    (Lay = LayoutLive) =>
        /\ err = ""
        /\ (mode = "save" /\ ~pending) =>
              /\ Len(savedir) = Len(objs)
              /\ \A i, j \in DOMAIN savedir :
                    savedir[i].name = savedir[j].name => i = j
              /\ \A i \in DOMAIN savedir :
                    savedir[i].bytes = Lay.entries[i].payload

\* C10: every iteration of enumentries() yields the objects the first one
\* yielded, in file order, with the same field values and payload bytes (the
\* payload bytes of the file), whatever the callers of earlier rounds did to
\* the file position and the views: the object enumentries() constructs for an
\* entry is the one it constructs from the untouched view.
C10_EnumerationRepeats ==
    /\ \A i \in DOMAIN objs :
          /\ i <= Len(first) => objs[i] = first[i]
          /\ objs[i].type = entries[i].type
          /\ (WellFramed(Lay) /\ ClassOf(objs[i].type) \notin
                  {"EntryType3Firmware", "EntryType6Firmware", "EntryType13", "EntryType20"})
                => objs[i].payload = Lay.entries[i].payload
    /\ phase = "ready" =>
          \A i \in DOMAIN entries :
              LET now == Enumerate(FileBytes, entries[i], fpos)
                  fresh == Enumerate(FileBytes, [entries[i] EXCEPT !.entfh.eof = FALSE],
                                     entries[i].ofs)
              IN  now.obj = fresh.obj /\ now.err = fresh.err

\* a second iteration has yielded its second object after a caller's read
\* left the EOF state set on an entry's view and the file position elsewhere
C10_Witness ==
    /\ passes = 2
    /\ Len(objs) >= 2
    /\ Len(first) >= 2
    /\ \E i \in DOMAIN entries : entries[i].entfh.eof
    /\ fpos # entries[Len(objs)].ofs + entries[Len(objs)].size

\* the file's first 8 bytes are there and are not the magic
WrongMagic == Len(Lay.magic) = 8 /\ Lay.magic # MagicBytes

\* C11: decoding a file whose first 8 bytes differ from the magic, be it in
\* one byte, fails with the invalid-magic error: the constructor ends there,
\* having read the 8 magic bytes and nothing after them, with no version, no
\* declared size and no entry, and no BsufFile exists to iterate.
C11_BadMagicFailsFirst ==
    WrongMagic =>
        /\ phase \in {"init", "failed"}
        /\ entries = <<>>
        /\ version = 0
        /\ filesize = 0
        /\ ~warned
        /\ passes = 0
        /\ objs = <<>>
        /\ phase = "init" => fpos = 0 /\ err = ""
        /\ phase = "failed" => fpos = 8 /\ err = "Exception: invalid header magic"

\* the constructor has failed on a magic that differs in its first byte only
C11_Witness ==
    /\ Lay = LayoutOffMagic(1)
    /\ phase = "failed"
    /\ err = "Exception: invalid header magic"
    /\ fpos = 8

\* the constructor is over: the BsufFile exists, or an exception was raised
Constructed == phase \in {"ready", "failed"}

\* every decoded entry starts where the one before it ended, 8 + size bytes
\* further on, and lies inside the file; in the loop the position is the end
\* of the last decoded entry
LoopAdvances ==
    /\ \A i \in DOMAIN entries :
          /\ entries[i].ofs - 6 =
                IF i = 1 THEN HeaderSize
                ELSE entries[i - 1].ofs - 6 + entries[i - 1].size + 8
          /\ entries[i].ofs + entries[i].size + 2 <= Len(FileBytes)
    /\ \A i, j \in DOMAIN entries : i < j => entries[i].ofs < entries[j].ofs
    /\ (phase = "entries" /\ entries # <<>>) =>
          fpos = Last(entries).ofs + Last(entries).size + 2

\* C12: the entry loop of BsufFile always ends, whatever the file's bytes,
\* its declared size and the entries' size fields (0 and sizes past the end
\* of the file included): every decoded entry moves the position forward by
\* size + 8, no offset is decoded twice, and the constructor comes to its
\* end, with the loop left or with an exception.
C12_LoopTerminates == [](LoopAdvances) /\ <>Constructed

\* the loop was left after two entries, the first of size 0
C12_Witness ==
    /\ fileId > Len(Layouts)
    /\ phase = "ready"
    /\ Len(entries) = 2
    /\ entries[1].size = 0

====
